---- MODULE Spec2Model ----
(***************************************************************************)
(* Model of proxy/http_response.go: the two HTTPResponseParser             *)
(* implementations, DefaultHTTPResponseParserFactory (the decode path) and *)
(* NoOpHTTPResponseParser (the passthrough path).                          *)
(*                                                                         *)
(* One behaviour of the model is one call of one of the two parsers on one *)
(* raw response. The decode path is a sequence of steps of one goroutine   *)
(* (pc); the passthrough path returns at once and is followed by the       *)
(* consumer's reads and closes of the returned stream, interleaved with    *)
(* the cancellation of the context.                                        *)
(***************************************************************************)
EXTENDS Integers, Sequences, FiniteSets, TLC

VARIABLES
    mode,            \* "decode" | "noop": which parser is being called
    respHeader,      \* resp.Header: canonical name -> sequence of values
    respBody,        \* the bytes resp.Body delivers
    respStatus,      \* resp.StatusCode
    remoteHeaders,   \* remote.HeadersFromResponse
    cfgDecoder,      \* cfg.Decoder
    cfgFormatter,    \* cfg.EntityFormatter
    pc,              \* position of the call
    defers,          \* the call's stack of deferred calls, last pushed last
    reader,          \* the local variable reader
    bodyPos,         \* bytes read from resp.Body so far
    bodyCloses,      \* number of times resp.Body.Close() has run
    gzCloses,        \* number of times an allocated gzip stream was closed
    data,            \* the local variable data
    err,             \* what cfg.Decoder returned: "unset" until it returns,
                     \* "" for nil
    responseHeader,  \* the local variable responseHeader
    ret,             \* what the call hands back to its caller
    panicking,       \* a run-time panic is unwinding the call
    log,             \* the sequence of events of the call
    bodyAvail,       \* passthrough: the bytes the upstream ever delivers
    ctxDone,         \* passthrough: the caller's context is cancelled
    wrapper,         \* passthrough: the stream wrapper, or NoWrapper
    rd,              \* passthrough: the consumer's read, "idle" | "blocked"
    rdAfterCancel,   \* passthrough: the current/last read began after cancel
    lastRead,        \* passthrough: what the last completed read returned
    got,             \* passthrough: the bytes the consumer has read
    reads,           \* passthrough: read calls issued so far
    closeCalls,      \* passthrough: Close calls the consumer has made
    cleanup          \* passthrough: the cancellation cleanup has run

vars == <<mode, respHeader, respBody, respStatus, remoteHeaders, cfgDecoder,
          cfgFormatter, pc, defers, reader, bodyPos, bodyCloses, gzCloses,
          data, err, responseHeader, ret, panicking, log, bodyAvail, ctxDone,
          wrapper, rd, rdAfterCancel, lastRead, got, reads, closeCalls,
          cleanup>>

inputs == <<mode, respHeader, respBody, respStatus, remoteHeaders,
            cfgDecoder, cfgFormatter, bodyAvail>>

decodeVars == <<defers, reader, gzCloses, data, err, responseHeader,
                panicking>>

streamVars == <<ctxDone, wrapper, rd, rdAfterCancel, lastRead, got, reads,
                closeCalls, cleanup>>

(***************************************************************************)
(* Bounds of the model.                                                    *)
(***************************************************************************)
MaxAllow == 2        \* longest header allow-list
MaxReads == 3        \* most reads the consumer of the stream issues
MaxCloses == 2       \* most Close calls the consumer of the stream makes

Range(s) == {s[i] : i \in 1..Len(s)}

SeqsUpTo(S, n) == UNION {[1..k -> S] : k \in 0..n}

(***************************************************************************)
(* Header names are sequences of one-character strings, so that the        *)
(* canonicalisation of a name is computed letter by letter.                *)
(***************************************************************************)
Letters ==
    << <<"a","A">>, <<"b","B">>, <<"c","C">>, <<"d","D">>, <<"e","E">>,
       <<"g","G">>, <<"i","I">>, <<"n","N">>, <<"o","O">>, <<"t","T">>,
       <<"x","X">> >>

IsLower(c) == \E i \in 1..Len(Letters) : Letters[i][1] = c
IsUpper(c) == \E i \in 1..Len(Letters) : Letters[i][2] = c

ToUpper(c) ==
    IF IsLower(c)
    THEN Letters[CHOOSE i \in 1..Len(Letters) : Letters[i][1] = c][2]
    ELSE c

ToLower(c) ==
    IF IsUpper(c)
    THEN Letters[CHOOSE i \in 1..Len(Letters) : Letters[i][2] = c][1]
    ELSE c

\* textproto's validHeaderFieldByte: letters, digits and token punctuation;
\* of the characters used here only the space is not a valid byte.
validHeaderFieldByte(c) == c # " "

\* textproto.CanonicalMIMEHeaderKey: a name holding an invalid byte is
\* returned unchanged; otherwise the first letter and every letter after a
\* hyphen is upper-cased and every other letter lower-cased.
CanonicalMIMEHeaderKey(s) ==
    IF \E i \in 1..Len(s) : ~validHeaderFieldByte(s[i])
    THEN s
    ELSE [i \in 1..Len(s) |->
            IF i = 1 \/ s[i-1] = "-" THEN ToUpper(s[i]) ELSE ToLower(s[i])]

ContentEncoding ==
    <<"C","o","n","t","e","n","t","-","E","n","c","o","d","i","n","g">>

\* http.Header.Get: the first value stored under the canonical form of
\* key, "" when there is none.
HeaderGet(h, key) ==
    LET k == CanonicalMIMEHeaderKey(key) IN
    IF k \in DOMAIN h /\ Len(h[k]) > 0 THEN h[k][1] ELSE ""

\* http.Header.Set: the canonical form of key now maps to the single value.
HeaderSet(h, key, value) ==
    LET k == CanonicalMIMEHeaderKey(key) IN
    [n \in DOMAIN h \cup {k} |-> IF n = k THEN <<value>> ELSE h[n]]

EmptyHeader == [n \in {} |-> <<>>]

(***************************************************************************)
(* compress/gzip, as far as the parser depends on it. A gzip stream is a   *)
(* header, the compressed bytes and a trailer holding a checksum of the    *)
(* uncompressed bytes.                                                     *)
(***************************************************************************)
GzipHeader == <<31, 139, 8>>

RECURSIVE Sum(_)
Sum(s) == IF s = <<>> THEN 0 ELSE Head(s) + Sum(Tail(s))

Checksum(doc) == 200 + ((Sum(doc) + Len(doc)) % 7)

Deflate(doc) == [i \in 1..Len(doc) |-> doc[i] + 100]

Inflate(bytes) == [i \in 1..Len(bytes) |-> bytes[i] - 100]

\* gzip.Writer: what an upstream sends for doc under Content-Encoding: gzip.
Compress(doc) == GzipHeader \o Deflate(doc) \o <<Checksum(doc)>>

\* gzip.NewReader(r): reads the header from r; (nil, err) when r does not
\* start with a gzip header (gzip.ErrHeader, io.EOF on an empty body).
GzipHeaderOK(body) ==
    /\ Len(body) >= Len(GzipHeader)
    /\ SubSeq(body, 1, Len(GzipHeader)) = GzipHeader

\* (*gzip.Reader).Read to the end of the stream: the uncompressed bytes,
\* or an error when the stream is truncated or its checksum is wrong.
GzipReadAll(body) ==
    LET n == Len(body)
        h == Len(GzipHeader)
        doc == IF n > h THEN Inflate(SubSeq(body, h + 1, n - 1)) ELSE <<>>
    IN  IF n <= h THEN [err |-> "unexpected EOF", bytes |-> <<>>]
        ELSE IF body[n] # Checksum(doc)
             THEN [err |-> "gzip: invalid checksum", bytes |-> <<>>]
             ELSE [err |-> "", bytes |-> doc]

(***************************************************************************)
(* The response type of the package and the two pluggable capabilities.    *)
(***************************************************************************)
NilData == [isNil |-> TRUE, m |-> <<>>]
EmptyData == [isNil |-> FALSE, m |-> <<>>]

\* The zero Response, standing where the call returns a nil *Response.
NoResponse ==
    [Data |-> NilData, IsComplete |-> FALSE, Io |-> "nil", StatusCode |-> 0,
     Headers |-> EmptyHeader]

\* The structured form of a well-formed document: its keys, each with the
\* number of its occurrences. Byte 0 is not part of any well-formed document.
Parse(bytes) ==
    IF bytes = <<>> THEN [err |-> "EOF", data |-> NilData]
    ELSE IF 0 \in Range(bytes)
         THEN [err |-> "invalid character", data |-> NilData]
         ELSE [err |-> "",
               data |-> [isNil |-> FALSE,
                         m |-> [k \in Range(bytes) |->
                                 Cardinality({i \in 1..Len(bytes) :
                                                bytes[i] = k})]]]

\* encoding.Decoder values: "json" reads its source to the end and parses
\* it; "noop" is the decoder of DefaultHTTPResponseParserConfig, which
\* returns nil without reading; "reject" refuses without reading.
Decoders == {"json", "noop", "reject"}

DecoderReads(d) == d = "json"

\* EntityFormatter values: "identity" is the formatter of
\* DefaultHTTPResponseParserConfig; "deny" removes key 2 from the payload.
Formatters == {"identity", "deny"}

Format(f, r) ==
    IF f = "identity" THEN r
    ELSE [r EXCEPT !.Data.m = [k \in (DOMAIN r.Data.m) \ {2} |-> r.Data.m[k]]]

(***************************************************************************)
(* Lines 53-59: the loop that projects the allow-listed headers.           *)
(***************************************************************************)
RECURSIVE ProjectFrom(_, _, _, _)
ProjectFrom(allow, h, i, acc) ==
    IF i > Len(allow) THEN acc
    ELSE LET headerFromResponse == CanonicalMIMEHeaderKey(allow[i]) IN
         ProjectFrom(allow, h, i + 1,
            IF HeaderGet(h, headerFromResponse) # ""
            THEN HeaderSet(acc, headerFromResponse,
                           HeaderGet(h, headerFromResponse))
            ELSE acc)

\* The loop without the test of line 56: every allow-listed name is set.
ProjectHeadersUnchecked(allow, h) ==
    [n \in {CanonicalMIMEHeaderKey(allow[i]) : i \in 1..Len(allow)} |->
        <<HeaderGet(h, n)>>]

ProjectHeaders(allow, h) == ProjectFrom(allow, h, 1, EmptyHeader)

(***************************************************************************)
(* The inputs the model draws a call from.                                 *)
(***************************************************************************)
XA == <<"X","-","A">>

AllowNames ==
    { <<"x","-","a">>, <<"X","-","A">>, <<"b">>,
      <<"c","o","n","t","e","n","t","-","e","n","c","o","d","i","n","g">> }

EncodingValues == { <<>>, <<"gzip">>, <<"GZIP">>, <<"gzip, deflate">>, <<"">> }

XAValues == { <<>>, <<"v1">>, <<"">>, <<"", "v2">> }

\* A header multimap as the transport builds it: canonical keys, and a key
\* is present only with at least one value.
MakeHeader(ce, xa) ==
    [n \in (IF ce = <<>> THEN {} ELSE {ContentEncoding})
           \cup (IF xa = <<>> THEN {} ELSE {XA})
        |-> IF n = ContentEncoding THEN ce ELSE xa]

Headers == {MakeHeader(ce, xa) : ce \in EncodingValues, xa \in XAValues}

Docs == { <<1, 2>>, <<2, 0>> }

Corrupt(body) == [body EXCEPT ![Len(body)] = 199]

Bodies ==
    Docs \cup {Compress(d) : d \in Docs}
         \cup { <<>>, Corrupt(Compress(<<1, 2>>)) }

StatusCodes == {200, 404}

NoWrapper == [made |-> FALSE, ctx |-> "none", closed |-> FALSE]

Idle ==
    /\ pc = "start"
    /\ defers = <<>>
    /\ reader = "none"
    /\ bodyPos = 0
    /\ bodyCloses = 0
    /\ gzCloses = 0
    /\ data = NilData
    /\ err = "unset"
    /\ responseHeader = EmptyHeader
    /\ ret = [kind |-> "none", isNil |-> TRUE, resp |-> NoResponse, err |-> ""]
    /\ panicking = FALSE
    /\ log = <<>>
    /\ ctxDone = FALSE
    /\ wrapper = NoWrapper
    /\ rd = "idle"
    /\ rdAfterCancel = FALSE
    /\ lastRead = "none"
    /\ got = <<>>
    /\ reads = 0
    /\ closeCalls = 0
    /\ cleanup = FALSE

InitDecode ==
    /\ mode = "decode"
    /\ respHeader \in Headers
    /\ respBody \in Bodies
    /\ respStatus \in StatusCodes
    /\ remoteHeaders \in SeqsUpTo(AllowNames, MaxAllow)
    /\ cfgDecoder \in Decoders
    /\ cfgFormatter \in Formatters
    /\ bodyAvail = Len(respBody)
    /\ Idle

StreamBodies == { <<>>, <<7>>, <<7, 8>> }

\* The upstream delivers the first bodyAvail bytes of the body; when that
\* is less than the whole body it then stalls and never delivers more.
InitNoOp ==
    /\ mode = "noop"
    /\ respHeader \in Headers
    /\ respBody \in StreamBodies
    /\ respStatus \in StatusCodes
    /\ remoteHeaders = <<>>
    /\ cfgDecoder = "noop"
    /\ cfgFormatter = "identity"
    /\ bodyAvail \in 0..Len(respBody)
    /\ Idle

Init == InitDecode \/ InitNoOp

(***************************************************************************)
(* DefaultHTTPResponseParserFactory: the returned parser, step by step.    *)
(***************************************************************************)

\* The parser without line 37: nothing is deferred.
EnterNoDefer ==
    /\ mode = "decode" /\ pc = "start"
    /\ pc' = "switch"
    /\ UNCHANGED <<inputs, defers, reader, bodyPos, bodyCloses, gzCloses,
                   data, err, responseHeader, ret, panicking, log,
                   streamVars>>

\* Line 37: defer resp.Body.Close().
Enter ==
    /\ mode = "decode" /\ pc = "start"
    /\ defers' = Append(defers, "resp.Body.Close")
    /\ pc' = "switch"
    /\ UNCHANGED <<inputs, reader, bodyPos, bodyCloses, gzCloses, data, err,
                   responseHeader, ret, panicking, log, streamVars>>

\* Lines 39-46: the switch on the Content-Encoding value. The error of
\* gzip.NewReader is discarded: on failure reader holds a nil *gzip.Reader.
\* Its Close is deferred in both cases.
DetectStep(deferred) ==
    /\ mode = "decode" /\ pc = "switch"
    /\ IF HeaderGet(respHeader, ContentEncoding) = "gzip"
       THEN /\ reader' = IF GzipHeaderOK(respBody) THEN "gzip" ELSE "nilgzip"
            /\ bodyPos' = IF GzipHeaderOK(respBody) THEN Len(GzipHeader)
                          ELSE IF Len(respBody) < Len(GzipHeader)
                               THEN Len(respBody) ELSE Len(GzipHeader)
            /\ defers' = deferred
            /\ log' = Append(log, "gzip.NewReader")
       ELSE /\ reader' = "body"
            /\ UNCHANGED <<bodyPos, defers, log>>
    /\ pc' = "decode"
    /\ UNCHANGED <<inputs, bodyCloses, gzCloses, data, err, responseHeader,
                   ret, panicking, streamVars>>

\* The switch with the two defer statements in the other order: the close
\* of the gzip stream would run after the close of the body.
DetectCloseLast == DetectStep(<<"reader.Close">> \o defers)

Detect == DetectStep(Append(defers, "reader.Close"))

\* What a decoder that reads gets from the source it was handed.
ReadAll ==
    IF reader = "gzip" THEN GzipReadAll(respBody)
    ELSE [err |-> "", bytes |-> SubSeq(respBody, bodyPos + 1, Len(respBody))]

\* What cfg.Decoder returns: the read error of its source, or the parse.
Decoded ==
    IF cfgDecoder = "noop" THEN [err |-> "", data |-> NilData]
    ELSE IF cfgDecoder = "reject"
         THEN [err |-> "decoder: rejected", data |-> NilData]
         ELSE IF ReadAll.err # "" THEN [err |-> ReadAll.err, data |-> NilData]
              ELSE Parse(ReadAll.bytes)

\* Lines 48-51: cfg.Decoder(reader, &data). A Read on the nil *gzip.Reader
\* is a nil pointer dereference: the call panics inside the decoder.
Decode ==
    /\ mode = "decode" /\ pc = "decode"
    /\ log' = Append(log, "Decoder")
    /\ IF DecoderReads(cfgDecoder) /\ reader = "nilgzip"
       THEN /\ panicking' = TRUE
            /\ pc' = "unwind"
            /\ UNCHANGED <<data, err, ret, bodyPos>>
       ELSE /\ UNCHANGED panicking
            /\ err' = Decoded.err
            /\ bodyPos' = IF DecoderReads(cfgDecoder) THEN Len(respBody)
                          ELSE bodyPos
            /\ IF Decoded.err # ""
               THEN /\ ret' = [kind |-> "return", isNil |-> TRUE,
                               resp |-> NoResponse, err |-> Decoded.err]
                    /\ pc' = "unwind"
                    /\ UNCHANGED data
               ELSE /\ data' = Decoded.data
                    /\ pc' = "project"
                    /\ UNCHANGED ret
    /\ UNCHANGED <<inputs, defers, reader, bodyCloses, gzCloses,
                   responseHeader, streamVars>>

\* Lines 53-59: header projection.
Project ==
    /\ mode = "decode" /\ pc = "project"
    /\ responseHeader' = ProjectHeaders(remoteHeaders, respHeader)
    /\ log' = Append(log, "Project")
    /\ pc' = "format"
    /\ UNCHANGED <<inputs, defers, reader, bodyPos, bodyCloses, gzCloses,
                   data, err, ret, panicking, streamVars>>

\* Lines 61-67: the response handed to the formatter.
NewResponse ==
    [Data |-> data, IsComplete |-> TRUE, Io |-> "nil", StatusCode |-> 0,
     Headers |-> responseHeader]

\* Lines 61-69: build the response, format it, return it.
FormatReturn ==
    /\ mode = "decode" /\ pc = "format"
    /\ ret' = [kind |-> "return", isNil |-> FALSE,
               resp |-> Format(cfgFormatter, NewResponse), err |-> ""]
    /\ log' = Append(log, "Format")
    /\ pc' = "unwind"
    /\ UNCHANGED <<inputs, defers, reader, bodyPos, bodyCloses, gzCloses,
                   data, err, responseHeader, panicking, streamVars>>

\* The deferred calls run last-in first-out once the function returns or
\* panics. (*gzip.Reader).Close on the nil reader dereferences nil: it
\* panics and closes nothing; the remaining deferred calls still run.
RunDeferred ==
    /\ mode = "decode" /\ pc = "unwind" /\ defers # <<>>
    /\ defers' = SubSeq(defers, 1, Len(defers) - 1)
    /\ IF defers[Len(defers)] = "reader.Close"
       THEN IF reader = "gzip"
            THEN /\ gzCloses' = gzCloses + 1
                 /\ log' = Append(log, "reader.Close")
                 /\ UNCHANGED <<bodyCloses, panicking>>
            ELSE /\ panicking' = TRUE
                 /\ UNCHANGED <<gzCloses, bodyCloses, log>>
       ELSE /\ bodyCloses' = bodyCloses + 1
            /\ log' = Append(log, "resp.Body.Close")
            /\ UNCHANGED <<gzCloses, panicking>>
    /\ UNCHANGED <<inputs, pc, reader, bodyPos, data, err, responseHeader, ret,
                   streamVars>>

\* The call is over: the caller gets the return values, or the panic.
Finish ==
    /\ mode = "decode" /\ pc = "unwind" /\ defers = <<>>
    /\ pc' = "done"
    /\ ret' = IF panicking
              THEN [kind |-> "panic", isNil |-> TRUE, resp |-> NoResponse,
                    err |-> "nil pointer dereference"]
              ELSE ret
    /\ UNCHANGED <<inputs, defers, reader, bodyPos, bodyCloses, gzCloses,
                   data, err, responseHeader, panicking, log, streamVars>>

(***************************************************************************)
(* The stream wrapper NewReadCloserWrapper returns. Its code is not part   *)
(* of http_response.go; it is modelled from the written specification: a   *)
(* stream handle bound to a context, with its own Close and a closed-once  *)
(* guard, whose reads fail once the context is cancelled and which a       *)
(* cancellation-triggered cleanup closes.                                  *)
(***************************************************************************)
NewReadCloserWrapper(c) == [made |-> TRUE, ctx |-> c, closed |-> FALSE]

\* The error of the wrapper's context: set once that context is cancelled.
\* context.Background() is never cancelled.
WrapperCtxErr == wrapper.ctx = "ctx" /\ ctxDone

\* Close of the wrapper: the guard lets the first caller close the body.
WrapperClose ==
    IF wrapper.closed
    THEN UNCHANGED <<wrapper, bodyCloses>>
    ELSE /\ wrapper' = [wrapper EXCEPT !.closed = TRUE]
         /\ bodyCloses' = bodyCloses + 1

(***************************************************************************)
(* NoOpHTTPResponseParser, lines 75-85.                                    *)
(***************************************************************************)
NoOpCall(c, status, header, closes, consumed) ==
    /\ mode = "noop" /\ pc = "start"
    /\ wrapper' = NewReadCloserWrapper(c)
    /\ ret' = [kind |-> "return", isNil |-> FALSE,
               resp |-> [Data |-> EmptyData, IsComplete |-> TRUE,
                         Io |-> "wrapper", StatusCode |-> status,
                         Headers |-> header],
               err |-> ""]
    /\ bodyCloses' = closes
    /\ bodyPos' = consumed
    /\ pc' = "done"
    /\ UNCHANGED <<inputs, decodeVars, log, ctxDone, rd, rdAfterCancel,
                   lastRead, got, reads, closeCalls, cleanup>>

\* The passthrough parser with the decode path's deferred close of the body.
NoOpClosesBody == NoOpCall("ctx", respStatus, respHeader, 1, 0)

\* The passthrough parser without line 81: the status code is left unset.
NoOpNoStatus == NoOpCall("ctx", 0, respHeader, 0, 0)

\* The passthrough parser binding the stream to context.Background()
\* instead of the ctx it was given.
NoOpBackgroundCtx == NoOpCall("background", respStatus, respHeader, 0, 0)

NoOpHTTPResponseParser == NoOpCall("ctx", respStatus, respHeader, 0, 0)

(***************************************************************************)
(* The environment of the passthrough path: the caller cancels the         *)
(* context, the consumer reads and closes the stream, the upstream         *)
(* delivers bytes.                                                         *)
(***************************************************************************)
Cancel ==
    /\ mode = "noop" /\ ~ctxDone
    /\ ctxDone' = TRUE
    /\ UNCHANGED <<inputs, pc, decodeVars, bodyPos, bodyCloses, ret, log,
                   wrapper, rd, rdAfterCancel, lastRead, got, reads,
                   closeCalls, cleanup>>

\* The cleanup the cancellation of the wrapper's context triggers.
CloseOnCancel ==
    /\ mode = "noop" /\ wrapper.made /\ WrapperCtxErr /\ ~cleanup
    /\ cleanup' = TRUE
    /\ WrapperClose
    /\ UNCHANGED <<inputs, pc, decodeVars, bodyPos, ret, log, ctxDone, rd,
                   rdAfterCancel, lastRead, got, reads, closeCalls>>

\* The consumer closes the stream.
ConsumerClose ==
    /\ mode = "noop" /\ wrapper.made /\ closeCalls < MaxCloses
    /\ closeCalls' = closeCalls + 1
    /\ WrapperClose
    /\ UNCHANGED <<inputs, pc, decodeVars, bodyPos, ret, log, ctxDone, rd,
                   rdAfterCancel, lastRead, got, reads, cleanup>>

\* The consumer calls Read: it fails at once when the wrapper's context is
\* cancelled, and otherwise waits for the body.
ReadBegin ==
    /\ mode = "noop" /\ wrapper.made /\ rd = "idle" /\ reads < MaxReads
    /\ reads' = reads + 1
    /\ rdAfterCancel' = ctxDone
    /\ IF WrapperCtxErr
       THEN /\ lastRead' = "context canceled"
            /\ UNCHANGED rd
       ELSE /\ rd' = "blocked"
            /\ lastRead' = "pending"
    /\ UNCHANGED <<inputs, pc, decodeVars, bodyPos, bodyCloses, ret, log,
                   ctxDone, wrapper, got, closeCalls, cleanup>>

\* The read of the body returns: an error once the body is closed, the
\* next byte when the upstream has delivered one, the end of the stream
\* after the last byte. A read of a stalled, open body does not return.
ReadComplete ==
    /\ mode = "noop" /\ rd = "blocked"
    /\ \/ bodyCloses > 0
       \/ bodyPos < bodyAvail
       \/ bodyPos = Len(respBody)
    /\ rd' = "idle"
    /\ IF bodyCloses > 0
       THEN /\ lastRead' = "read on closed body"
            /\ UNCHANGED <<got, bodyPos>>
       ELSE IF bodyPos < bodyAvail
            THEN /\ lastRead' = "data"
                 /\ got' = Append(got, respBody[bodyPos + 1])
                 /\ bodyPos' = bodyPos + 1
            ELSE /\ lastRead' = "EOF"
                 /\ UNCHANGED <<got, bodyPos>>
    /\ UNCHANGED <<inputs, pc, decodeVars, bodyCloses, ret, log, ctxDone,
                   wrapper, rdAfterCancel, reads, closeCalls, cleanup>>

Next ==
    \/ Enter
    \/ Detect
    \/ Decode
    \/ Project
    \/ FormatReturn
    \/ RunDeferred
    \/ Finish
    \/ NoOpHTTPResponseParser
    \/ Cancel
    \/ CloseOnCancel
    \/ ConsumerClose
    \/ ReadBegin
    \/ ReadComplete

Spec == Init /\ [][Next]_vars

(***************************************************************************)
(* Properties.                                                             *)
(***************************************************************************)
Count(e) == Cardinality({i \in 1..Len(log) : log[i] = e})

Before(a, b) ==
    \A i, j \in 1..Len(log) : log[i] = a /\ log[j] = b => i < j

Returned == mode = "decode" /\ pc = "done"

GzipRequested == HeaderGet(respHeader, ContentEncoding) = "gzip"

\* The allow-listed names, canonicalised, whose first value in the raw
\* header is not empty.
AllowedPresent ==
    {n \in {CanonicalMIMEHeaderKey(remoteHeaders[i]) :
                i \in 1..Len(remoteHeaders)} :
        /\ n \in DOMAIN respHeader
        /\ respHeader[n] # <<>>
        /\ respHeader[n][1] # ""}

\* C1: in the decode path the raw body is never closed twice, and it has
\* been closed exactly once when the call is over, whatever the decoder did
\* and whether or not the body was gzip.
C1_BodyClosedExactlyOnce ==
    mode = "decode" =>
        /\ bodyCloses <= 1
        /\ pc = "done" => bodyCloses = 1

C1_Witness ==
    /\ Returned /\ reader = "gzip" /\ err = "gzip: invalid checksum"
    /\ cfgDecoder = "json" /\ bodyCloses = 1

\* C2: when the decoder reports a failure, the call returns exactly that
\* error and a nil response, the decoder ran exactly once, and neither the
\* header projection nor the formatter ran.
C2_DecoderFailureReturned ==
    (Returned /\ err \notin {"unset", ""}) =>
        /\ ret.kind = "return" /\ ret.isNil /\ ret.err = err
        /\ Count("Decoder") = 1
        /\ Count("Project") = 0 /\ Count("Format") = 0

\* The same statement of the calls whose reader is not the nil gzip reader.
DecoderFailureReturnedWithReader ==
    (Returned /\ err \notin {"unset", ""} /\ reader # "nilgzip") =>
        /\ ret.kind = "return" /\ ret.isNil /\ ret.err = err
        /\ Count("Decoder") = 1
        /\ Count("Project") = 0 /\ Count("Format") = 0

\* C3: the header names of the response handed to the formatter are exactly
\* the canonicalised allow-listed names whose value in the raw header is
\* not empty, each with that value.
C3_ProjectedHeaders ==
    (mode = "decode" /\ pc \in {"format", "unwind", "done"} /\ err = "") =>
        /\ DOMAIN NewResponse.Headers = AllowedPresent
        /\ \A n \in AllowedPresent :
              NewResponse.Headers[n] = <<respHeader[n][1]>>

C3_Witness ==
    /\ mode = "decode" /\ pc = "format"
    /\ remoteHeaders = << <<"x","-","a">>, <<"b">> >>
    /\ DOMAIN respHeader = {ContentEncoding, XA}
    /\ respHeader[XA] = <<"v1">>
    /\ DOMAIN NewResponse.Headers = {XA}

\* C4: with Content-Encoding gzip and a body that is no gzip stream, the
\* call does not crash: the decoder is reached, its first read fails, and
\* that failure is returned as an error with a nil response, the body
\* closed.
C4_BadGzipIsDecodeError ==
    (Returned /\ GzipRequested /\ ~GzipHeaderOK(respBody)
              /\ DecoderReads(cfgDecoder)) =>
        /\ Count("Decoder") = 1
        /\ ret.kind = "return" /\ ret.isNil /\ ret.err # ""
        /\ bodyCloses = 1

\* What the code does there instead: it panics, the body closed.
BadGzipPanics ==
    (Returned /\ GzipRequested /\ ~GzipHeaderOK(respBody)) =>
        ret.kind = "panic" /\ bodyCloses = 1 /\ gzCloses = 0

\* C5: an allocated gzip stream is closed before the call is over on the
\* success and on the decoder-error exit, and always before the raw body
\* is closed; when none is allocated only the raw body is closed.
C5_GzipClosedBeforeBody ==
    mode = "decode" =>
        /\ reader = "gzip" =>
              /\ gzCloses <= 1
              /\ bodyCloses > 0 => gzCloses = 1
              /\ pc = "done" => gzCloses = 1 /\ bodyCloses = 1
              /\ Before("reader.Close", "resp.Body.Close")
        /\ reader # "gzip" =>
              /\ gzCloses = 0 /\ Count("reader.Close") = 0
              /\ pc = "done" => Count("resp.Body.Close") = 1

C5_Witness ==
    /\ Returned /\ reader = "gzip" /\ err = "invalid character"
    /\ log = <<"gzip.NewReader", "Decoder", "reader.Close",
               "resp.Body.Close">>

\* C6: the passthrough call itself neither reads nor closes the raw body;
\* afterwards only the stream wrapper closes it: over every interleaving of
\* reads, closes and cancellation the body is closed at most once, and
\* exactly once as soon as the wrapper has been closed.
C6_PassthroughClosesOnce ==
    mode = "noop" =>
        /\ bodyCloses <= 1
        /\ wrapper.closed <=> bodyCloses = 1
        /\ (reads = 0 /\ closeCalls = 0 /\ ~cleanup) =>
              bodyCloses = 0 /\ bodyPos = 0

C6_Witness ==
    /\ mode = "noop" /\ pc = "done" /\ cleanup /\ closeCalls = MaxCloses
    /\ reads > 0 /\ wrapper.closed /\ bodyCloses = 1

\* C7: the passthrough call never fails; its response has an empty payload,
\* completeness true, the raw status code, the whole raw header and the
\* stream, and the stream read to its end yields exactly the raw body.
C7_PassthroughResponse ==
    (mode = "noop" /\ pc = "done") =>
        /\ ret.kind = "return" /\ ret.err = "" /\ ~ret.isNil
        /\ ret.resp = [Data |-> EmptyData, IsComplete |-> TRUE,
                       Io |-> "wrapper", StatusCode |-> respStatus,
                       Headers |-> respHeader]
        /\ lastRead = "EOF" => got = respBody

C7_Witness ==
    /\ mode = "noop" /\ pc = "done" /\ ~ctxDone /\ closeCalls = 0
    /\ lastRead = "EOF" /\ got = <<7, 8>>
    /\ ret.resp.StatusCode = 404
    /\ ret.resp.Headers = MakeHeader(<<"GZIP">>, <<"", "v2">>)

\* C8: a read of the passthrough stream that is issued after the context
\* was cancelled does not wait for the body and returns the cancellation
\* error, also when the body would never deliver another byte.
C8_ReadAfterCancelFails ==
    (mode = "noop" /\ rdAfterCancel) =>
        rd = "idle" /\ lastRead = "context canceled"

C8_Witness ==
    /\ mode = "noop" /\ rdAfterCancel /\ lastRead = "context canceled"
    /\ got = <<7>> /\ bodyAvail = 1 /\ respBody = <<7, 8>>
    /\ bodyCloses = 0

\* C9: the decoder is handed a gzip-decoding stream over the raw body
\* exactly when the Content-Encoding value is "gzip", and the raw body
\* itself for every other value; the payload is the parse of the
\* decompressed body in the first case and of the raw body in the second.
C9_SourceByEncoding ==
    (mode = "decode" /\ Count("Decoder") = 1) =>
        /\ reader = "gzip" <=> GzipRequested
        /\ reader # "gzip" => reader = "body"
        /\ (err = "" /\ DecoderReads(cfgDecoder)) =>
              data = Parse(IF GzipRequested
                           THEN GzipReadAll(respBody).bytes
                           ELSE respBody).data

\* The same statement without the bodies that do not open as gzip.
SourceByEncodingWhenOpened ==
    (mode = "decode" /\ Count("Decoder") = 1 /\ reader # "nilgzip") =>
        /\ reader = "gzip" <=> GzipRequested
        /\ reader # "gzip" => reader = "body"
        /\ (err = "" /\ DecoderReads(cfgDecoder)) =>
              data = Parse(IF GzipRequested
                           THEN GzipReadAll(respBody).bytes
                           ELSE respBody).data

\* C10: on decoder success the call returns, with a nil error, exactly the
\* formatter's result on the response made of the decoded payload,
\* completeness true, the projected headers, no stream and status code 0;
\* the formatter ran once, after the decoder and the projection.
C10_FormattedResponse ==
    (Returned /\ err = "") =>
        /\ ret = [kind |-> "return", isNil |-> FALSE,
                  resp |-> Format(cfgFormatter,
                            [Data |-> data, IsComplete |-> TRUE,
                             Io |-> "nil", StatusCode |-> 0,
                             Headers |-> ProjectHeaders(remoteHeaders,
                                                        respHeader)]),
                  err |-> ""]
        /\ Count("Format") = 1
        /\ Before("Decoder", "Format") /\ Before("Project", "Format")

\* The same statement of the calls whose reader is not the nil gzip reader.
FormattedResponseWithReader ==
    (Returned /\ err = "" /\ reader # "nilgzip") =>
        /\ ret = [kind |-> "return", isNil |-> FALSE,
                  resp |-> Format(cfgFormatter,
                            [Data |-> data, IsComplete |-> TRUE,
                             Io |-> "nil", StatusCode |-> 0,
                             Headers |-> ProjectHeaders(remoteHeaders,
                                                        respHeader)]),
                  err |-> ""]
        /\ Count("Format") = 1
        /\ Before("Decoder", "Format") /\ Before("Project", "Format")

====
